---- MODULE Spec2Model ----
(***************************************************************************)
(* Model of layout_blt/trainer.py: the Trainer's epoch loop (train,        *)
(* run_epoch_, save_checkpoint, load_checkpoint) and the masking           *)
(* functions (BLT_masking, test_masking).                                  *)
(*                                                                         *)
(* Numbers that are floats in the program are exact rationals <<n, d>>     *)
(* here (d > 0); mask rates and learning rates are never rounded.          *)
(***************************************************************************)
EXTENDS Integers, Sequences, FiniteSets, TLC

(***************************************************************************)
(* Bounds of the model.                                                    *)
(***************************************************************************)
\* number of batches the training loader yields in one pass
NumTrainBatches == 2
\* number of batches the evaluation loader yields in one pass
NumTestBatches == 2
\* epochs after which the model starts no further epoch
EpochCap == 3
\* losses the model collaborator returns are 1..MaxLoss
MaxLoss == 2
\* random.random() returns u / UDen for u in 0..UDen-1
UDen == 2
\* largest positive integer the operator types at the prompt
MaxExtend == 2
\* config.max_epochs at construction is 1..MaxInitEpochs
MaxInitEpochs == 2
\* config.warmup_iters and config.final_iters, scaled down
warmup_iters == 2
final_iters == 4

\* sequences of a batch have SeqLen tokens, a batch has BatchSize sequences
SeqLen == 3
BatchSize == 2
\* ordinary tokens are 1..VocabSize
VocabSize == 1
\* torch.rand returns k / NumScores for k in 0..NumScores-1
NumScores == 3
\* mask rates are n / RateDen for n in 1..RateDen
RateDen == 4
\* seeds of the global generator are 0..MaxSeed
MaxSeed == 1
\* training calls of BLT_masking a generator serves between two reseedings
MaxTrainCalls == 2

(***************************************************************************)
(* Program constants.                                                      *)
(***************************************************************************)
\* TrainerConfig.learning_rate = 3e-4, in units of 1e-4
learning_rate == 3
\* TrainerConfig.start_mask_rate = 0.15 and end_mask_rate = 0.7, in hundredths
start_mask_rate == 15
end_mask_rate == 70
\* TrainerConfig.sample_every
sample_every == 1
\* the literals 0.15 and 0.7 of the evaluation branch of run_epoch_, in hundredths
EvalStartLiteral == 15
EvalEndLiteral == 70

(***************************************************************************)
(* Rational arithmetic.                                                    *)
(***************************************************************************)
RECURSIVE Gcd(_, _)
Gcd(a, b) == IF b = 0 THEN a ELSE Gcd(b, a % b)

Abs(x) == IF x < 0 THEN -x ELSE x

\* the reduced form of n/d, d > 0
Rat(n, d) ==
    LET g == Gcd(Abs(n), d) IN <<n \div g, d \div g>>

RatLt(a, b) == a[1] * b[2] < b[1] * a[2]
RatLe(a, b) == a[1] * b[2] <= b[1] * a[2]
RatEq(a, b) == a[1] * b[2] = b[1] * a[2]
RatMax(a, b) == IF RatLt(a, b) THEN b ELSE a
RatMin(a, b) == IF RatLt(b, a) THEN b ELSE a
RatAdd(a, b) == Rat(a[1] * b[2] + b[1] * a[2], a[2] * b[2])
RatMul(a, b) == Rat(a[1] * b[1], a[2] * b[2])

Max(a, b) == IF a < b THEN b ELSE a
Min(a, b) == IF a < b THEN a ELSE b

RECURSIVE SumSeq(_)
SumSeq(s) == IF s = <<>> THEN 0 ELSE Head(s) + SumSeq(Tail(s))

(***************************************************************************)
(* State of the Trainer and of the train() loop.                           *)
(***************************************************************************)
VARIABLES
    pc,            \* position of train(): "start", "train", "eval", "save",
                   \* "decide", "sample", "check", "prompt", "done", "raised"
    raised,        \* the exception that ended train(), "none" while running
    has_test,      \* self.test_dataset is not None
    has_ckpt_dir,  \* self.config.ckpt_dir is not None
    has_samples,   \* self.config.samples_dir is not None
    lr_decay,      \* self.config.lr_decay
    max_epochs,    \* self.config.max_epochs
    iters,         \* self.iters
    lr,            \* optimizer.param_groups[g]['lr'], per group, units of 1e-4
    params,        \* the unwrapped model's parameters (a version number)
    files,         \* checkpoint files: 0 is checkpoint.pth, e is checkpointNo.e.pth
    epoch,         \* train()'s local epoch
    best_loss,     \* train()'s local best_loss (Inf for float('inf'))
    test_loss,     \* train()'s local test_loss (Unbound before its first assignment)
    loaded,        \* args.load: __init__ called load_checkpoint
    temp,          \* train()'s local temp: the operator's last answer (NoAnswer before)
    it,            \* run_epoch_'s batch index
    losses,        \* run_epoch_'s local losses (empty outside a pass)
    mask_rate,     \* run_epoch_'s local mask_rate (Unbound outside a pass)
    nan_detected,  \* check_for_nan_gradients returned True in the last training batch
    \* history of the run, kept for the properties
    opt_steps,     \* number of optimizer.step() calls applied
    eval_loss_log, \* the evaluation loss returned in each epoch, in order
    best_writes,   \* epochs in which checkpoint.pth was written
    epoch_writes,  \* ids of the epoch-tagged checkpoints written, in order
    nan_epochs,    \* epochs whose training pass was aborted
    eval_rates,    \* mask rates used by the batches of the current evaluation pass
    last_extend,   \* n of the last answer when it was a positive integer, else 0
    since_answer,  \* epochs completed since the operator's last answer
    sampled,       \* epochs after which test(epoch) was invoked
    \* one call of BLT_masking and the global torch generator
    m_pc,          \* "idle" before a call, "returned" after it
    m_inputs,      \* inputs: row -> sequence of tokens
    m_rate,        \* mask_rate
    m_training,    \* training
    m_rand,        \* rand after rand[~should_mask] = 2.0
    m_masked,      \* the returned masked_inputs
    m_mask,        \* the returned should_mask
    gen,           \* the generator: its initial seed and the values drawn since
    gen_before,    \* the generator immediately before the last call
    first_eval,    \* the first call with training=False: its arguments and results
    \* the model object and the snapshots, for save_checkpoint and load_checkpoint
    wrapped,       \* self.model is a torch.nn.DataParallel around the model
    load_name,     \* config.load_name: the checkpoint file load_checkpoint reads
    saved_params,  \* per checkpoint file, the unwrapped parameters when it was last written
    step_lrs,      \* the learning rates in effect at each optimizer.step(), in order
    \* one evaluation of the lr_mult expression of run_epoch_
    lrq,           \* its inputs: self.iters, config.warmup_iters, config.final_iters
    lr_mult        \* its value (Unbound before the evaluation)

trainerVars == <<pc, raised, has_test, has_ckpt_dir, has_samples, lr_decay,
                 max_epochs, iters, lr, params, files, epoch, best_loss,
                 test_loss, loaded, temp, it, losses, mask_rate, nan_detected>>
historyVars == <<opt_steps, eval_loss_log, best_writes, epoch_writes,
                 nan_epochs, eval_rates, last_extend, since_answer, sampled,
                 step_lrs, saved_params>>
maskVars == <<m_pc, m_inputs, m_rate, m_training, m_rand, m_masked, m_mask,
              gen, gen_before>>
schedVars == <<lrq, lr_mult>>
\* what no step of train() touches
restVars == <<maskVars, first_eval, wrapped, load_name, schedVars>>
vars == <<trainerVars, historyVars, maskVars, first_eval, wrapped, load_name,
          schedVars>>

\* a local that no assignment has reached yet (rational-valued locals)
Unbound == <<0, 0>>
\* float('inf'): RatLt(x, Inf) holds for every finite x, RatLt(Inf, Inf) does not
Inf == <<1, 0>>
\* a checkpoint file that does not exist
Absent == [prefix |-> "absent", weights |-> 0]
\* no snapshot was written to a file yet
NeverSaved == [weights |-> 0, wrapped |-> FALSE, written |-> FALSE]
\* train()'s temp before the first input()
NoAnswer == [kind |-> "none", val |-> 0]
\* what the operator can type: text that int() parses to val, or any other text
Answers == [kind : {"int"}, val : (-1)..MaxExtend] \cup [kind : {"text"}, val : {0}]

\* optimizer.param_groups
Groups == {1, 2}
Losses == 1..MaxLoss
FileNames == 0..EpochCap

\* the parameters in save/<load_name>.pth, written by an earlier run
SavedParams == 7

(***************************************************************************)
(* RateSchedulers: the expressions of run_epoch_.                          *)
(***************************************************************************)
\* math.cos(math.pi * p) for a rational p in [0, 1], by Bhaskara's rational
\* approximation cos(x) ~ (pi^2 - 4x^2) / (pi^2 + x^2) on [-pi/2, pi/2] and
\* cos(pi - x) = -cos(x); exact at p = 0, 1/3, 1/2, 2/3, 1
CosPi(p) ==
    IF 2 * p[1] <= p[2]
    THEN Rat(p[2] * p[2] - 4 * p[1] * p[1], p[2] * p[2] + p[1] * p[1])
    ELSE LET q == p[2] - p[1]
         IN  Rat(-(p[2] * p[2] - 4 * q * q), p[2] * p[2] + q * q)

\* mutant: the cosine branch without its floor of 0.1
LrMultNoFloor(i, warmup, final) ==
    IF i < warmup
    THEN Rat(i, Max(1, warmup))
    ELSE LET progress == RatMin(<<1, 1>>,
                 Rat(i - warmup, Max(1, final - warmup)))
         IN  RatMul(<<1, 2>>, RatAdd(<<1, 1>>, CosPi(progress)))

\* lr_mult of run_epoch_ as a function of self.iters, config.warmup_iters and
\* config.final_iters
LrMultOf(i, warmup, final) ==
    IF i < warmup
    THEN Rat(i, Max(1, warmup))
    ELSE LET progress == RatMin(<<1, 1>>,
                 Rat(i - warmup, Max(1, final - warmup)))
         IN  RatMax(<<1, 10>>, RatMul(<<1, 2>>, RatAdd(<<1, 1>>, CosPi(progress))))

\* lr_mult of run_epoch_, from the iteration counter, under this trainer's
\* configuration
LrMult(i) == LrMultOf(i, warmup_iters, final_iters)

\* mutant: the schedule is evaluated with the counter before its increment
LrAfterStepStale(i, cur) ==
    IF lr_decay
    THEN [g \in Groups |-> RatMul(<<learning_rate, 1>>, LrMult(i - 1))]
    ELSE cur

\* mutant: the schedule is evaluated one iteration ahead
LrAfterStepAhead(i, cur) ==
    IF lr_decay
    THEN [g \in Groups |-> RatMul(<<learning_rate, 1>>, LrMult(i + 1))]
    ELSE cur

\* the learning rate every parameter group holds after an optimizer step at
\* iteration counter i; cur is what the groups held before
LrAfterStep(i, cur) ==
    IF lr_decay
    THEN [g \in Groups |-> RatMul(<<learning_rate, 1>>, LrMult(i))]
    ELSE cur

\* mask_rate of a training batch: start + (end - start) * random.random()
TrainMaskRate(u) ==
    Rat(start_mask_rate * UDen + (end_mask_rate - start_mask_rate) * u, 100 * UDen)

\* mask_rate of the evaluation batch at index i of total:
\* 0.15 + (0.7 - 0.15) * min(it / pbar.total, 1)
EvalMaskRate(i, total) ==
    RatAdd(<<EvalStartLiteral, 100>>,
           RatMul(<<EvalEndLiteral - EvalStartLiteral, 100>>,
                  RatMin(Rat(i, total), <<1, 1>>)))

(***************************************************************************)
(* Trainer.__init__, load_checkpoint, save_checkpoint.                     *)
(***************************************************************************)
\* hasattr(self.model, "module"): a DataParallel holds the model as .module
HasModule(w) == w

\* isinstance(self.model, torch.nn.DataParallel)
IsDataParallel(w) == w

\* the keys of obj.state_dict(): those of a DataParallel start with "module."
KeyPrefix(is_wrapper) == IF is_wrapper THEN "module." ELSE ""

\* obj.state_dict() of an object holding the parameters p
StateDict(is_wrapper, p) == [prefix |-> KeyPrefix(is_wrapper), weights |-> p]

\* mutant: save_checkpoint takes self.model as it is
RawModelIsSelfModel(w) == w

\* raw_model = self.model.module if hasattr(self.model, "module") else
\* self.model: whether raw_model is the DataParallel
RawModelIsWrapper(w) == IF HasModule(w) THEN FALSE ELSE w

\* the object load_checkpoint calls load_state_dict on: self.model.module for
\* a DataParallel, self.model otherwise; whether it is the DataParallel
LoadTargetIsWrapper(w) == IF IsDataParallel(w) THEN FALSE ELSE w

\* load_state_dict(checkpoint) raises RuntimeError unless the keys of the
\* checkpoint are the keys of the object
KeysMatch(is_wrapper, sd) == sd.prefix = KeyPrefix(is_wrapper)

\* load_checkpoint raises: FileNotFoundError from torch.load, RuntimeError
\* from load_state_dict
LoadRaises(w, sd) ==
    IF sd = Absent THEN "FileNotFoundError"
    ELSE IF ~KeysMatch(LoadTargetIsWrapper(w), sd) THEN "RuntimeError"
    ELSE "none"

\* load_checkpoint: the parameters of the unwrapped model afterwards
LoadCheckpoint(w, p, sd) == IF LoadRaises(w, sd) = "none" THEN sd.weights ELSE p

\* the file save_checkpoint(id) writes: checkpoint.pth without an id
\* (id = 0 stands for None), checkpointNo.<id>.pth with one
CkptPath(id) == id

\* save_checkpoint(id): raw_model.state_dict() is written to the path
SaveCheckpoint(fs, id, w, p) ==
    [fs EXCEPT ![CkptPath(id)] = StateDict(RawModelIsWrapper(w), p)]

\* the history of save_checkpoint(id)
SavedNow(sp, id, w, p) ==
    [sp EXCEPT ![CkptPath(id)] = [weights |-> p, wrapped |-> w, written |-> TRUE]]

\* save/<load_name>.pth of a trainer constructed with args.load: a snapshot
\* an earlier run saved
PriorSnapshot == StateDict(FALSE, SavedParams)

\* the rate model.configure_optimizers(config) gives every parameter group
ConstructedLr == [g \in Groups |-> <<learning_rate, 1>>]

\* the state after Trainer(model, train_dataset, test_dataset, config, args);
\* model.configure_optimizers(config) builds the optimizer with
\* config.learning_rate in every parameter group
TrainerInit ==
    /\ pc = "start"
    /\ raised = "none"
    /\ has_test \in BOOLEAN
    /\ has_ckpt_dir \in BOOLEAN
    /\ has_samples \in BOOLEAN
    /\ lr_decay \in BOOLEAN
    /\ max_epochs \in 1..MaxInitEpochs
    /\ iters = 0
    /\ lr = ConstructedLr
    /\ wrapped \in BOOLEAN
    /\ load_name = 0
    /\ loaded \in BOOLEAN
    /\ params = IF loaded THEN LoadCheckpoint(wrapped, 0, PriorSnapshot) ELSE 0
    /\ files = [f \in FileNames |-> Absent]
    /\ epoch = 0
    /\ best_loss = Inf
    /\ test_loss = Unbound
    /\ temp = NoAnswer
    /\ it = 0
    /\ losses = <<>>
    /\ mask_rate = Unbound
    /\ nan_detected = FALSE
    /\ opt_steps = 0
    /\ eval_loss_log = <<>>
    /\ best_writes = {}
    /\ epoch_writes = <<>>
    /\ nan_epochs = {}
    /\ eval_rates = <<>>
    /\ last_extend = 0
    /\ since_answer = 0
    /\ sampled = {}
    /\ step_lrs = <<>>
    /\ saved_params = [f \in FileNames |-> NeverSaved]

(***************************************************************************)
(* Trainer.train and Trainer.run_epoch_.                                   *)
(***************************************************************************)
\* the top of the while loop: epoch += 1, then run_epoch_(epoch, 'train')
\* builds its loader and starts at the first batch
BeginEpoch ==
    /\ epoch < EpochCap
    /\ epoch' = epoch + 1
    /\ pc' = "train"
    /\ it' = 0
    /\ losses' = <<>>
    /\ nan_detected' = FALSE

\* train() is called: best_loss = float('inf'), epoch = 0, first iteration
StartTrain ==
    /\ pc = "start"
    /\ UNCHANGED restVars
    /\ best_loss' = Inf
    /\ BeginEpoch
    /\ UNCHANGED <<raised, has_test, has_ckpt_dir, has_samples, lr_decay,
                   max_epochs, iters, lr, params, files, test_loss, loaded,
                   temp, mask_rate>>
    /\ UNCHANGED historyVars

\* where train() goes when run_epoch_(epoch, 'train') returns
AfterTrainPass == IF has_test THEN "eval" ELSE "save"

\* mutant: the counter counts batch attempts, aborted ones included
ItersCountAttempts(nan, i) == i + 1

\* self.iters after a training batch whose gradient check returned nan
ItersAfterBatch(nan, i) == IF nan THEN i ELSE i + 1

\* mutant: the NaN guard does not return, the pass goes on
TrainPassIgnoresNan(nan, i) == i + 1 < NumTrainBatches

\* whether the training pass goes on to another batch after this one
TrainPassContinues(nan, i) == ~nan /\ i + 1 < NumTrainBatches

\* one training batch of run_epoch_: mask rate, masking, forward, backward,
\* clipping, the NaN check, and then either the return or the optimizer step,
\* the counter and the schedule
TrainBatch(nan, u, loss) ==
    /\ pc = "train"
    /\ UNCHANGED restVars
    /\ it < NumTrainBatches
    /\ mask_rate' = IF TrainPassContinues(nan, it) THEN TrainMaskRate(u) ELSE Unbound
    /\ losses' = IF TrainPassContinues(nan, it) THEN Append(losses, loss) ELSE <<>>
    /\ nan_detected' = nan
    /\ iters' = ItersAfterBatch(nan, iters)
    /\ opt_steps' = IF nan THEN opt_steps ELSE opt_steps + 1
    /\ params' = IF nan THEN params ELSE params + 1
    /\ lr' = IF nan THEN lr ELSE LrAfterStep(iters', lr)
    /\ nan_epochs' = IF nan THEN nan_epochs \cup {epoch} ELSE nan_epochs
    /\ IF TrainPassContinues(nan, it)
       THEN /\ it' = it + 1
            /\ pc' = "train"
       ELSE /\ it' = 0
            /\ pc' = AfterTrainPass
    /\ eval_rates' = <<>>
    /\ UNCHANGED <<raised, has_test, has_ckpt_dir, has_samples, lr_decay,
                   max_epochs, files, epoch, best_loss, test_loss, loaded, temp>>
    /\ step_lrs' = IF nan THEN step_lrs ELSE Append(step_lrs, lr)
    /\ UNCHANGED <<eval_loss_log, best_writes, epoch_writes, last_extend,
                   since_answer, sampled, saved_params>>

\* float(np.mean(losses))
MeanLoss(ls) == Rat(SumSeq(ls), Len(ls))

\* one evaluation batch of run_epoch_(epoch, 'test'); after the last one the
\* mean loss is returned and assigned to train()'s test_loss
EvalBatch(loss) ==
    /\ pc = "eval"
    /\ UNCHANGED restVars
    /\ it < NumTestBatches
    /\ eval_rates' = Append(eval_rates, EvalMaskRate(it, NumTestBatches))
    /\ LET ls == Append(losses, loss)
       IN  IF it + 1 < NumTestBatches
           THEN /\ it' = it + 1
                /\ pc' = "eval"
                /\ losses' = ls
                /\ mask_rate' = EvalMaskRate(it, NumTestBatches)
                /\ UNCHANGED <<test_loss, eval_loss_log>>
           ELSE /\ it' = 0
                /\ pc' = "save"
                /\ losses' = <<>>
                /\ mask_rate' = Unbound
                /\ test_loss' = MeanLoss(ls)
                /\ eval_loss_log' = Append(eval_loss_log, MeanLoss(ls))
    /\ UNCHANGED <<raised, has_test, has_ckpt_dir, has_samples, lr_decay,
                   max_epochs, iters, lr, params, files, epoch, best_loss,
                   loaded, temp, nan_detected>>
    /\ UNCHANGED <<step_lrs, saved_params, opt_steps, best_writes, epoch_writes, nan_epochs,
                   last_extend, since_answer, sampled>>

\* train() ends with an uncaught exception
Raise(exc) ==
    /\ pc' = "raised"
    /\ raised' = exc

\* self.save_checkpoint(epoch): os.path.join(None, ...) raises TypeError
\* when config.ckpt_dir is None
SaveEpochCheckpoint ==
    /\ pc = "save"
    /\ UNCHANGED restVars
    /\ IF has_ckpt_dir
       THEN /\ files' = SaveCheckpoint(files, epoch, wrapped, params)
            /\ saved_params' = SavedNow(saved_params, epoch, wrapped, params)
            /\ epoch_writes' = Append(epoch_writes, epoch)
            /\ pc' = "decide"
            /\ UNCHANGED raised
       ELSE /\ Raise("TypeError")
            /\ UNCHANGED <<files, epoch_writes, saved_params>>
    /\ UNCHANGED <<has_test, has_ckpt_dir, has_samples, lr_decay, max_epochs,
                   iters, lr, params, epoch, best_loss, test_loss, loaded,
                   temp, it, losses, mask_rate, nan_detected>>
    /\ UNCHANGED <<step_lrs, opt_steps, eval_loss_log, best_writes, nan_epochs,
                   eval_rates, last_extend, since_answer, sampled>>

\* mutant: a loss equal to the best counts as an improvement
GoodModelOnTie(tl, bl) == ~has_test \/ RatLe(tl, bl)

\* good_model = self.test_dataset is None or test_loss is None
\*              or test_loss < best_loss
\* (run_epoch_(epoch, 'test') returns a float, never None)
GoodModel(tl, bl) == ~has_test \/ RatLt(tl, bl)

\* the good_model decision, the print of test_loss (UnboundLocalError when no
\* assignment has reached test_loss), and the best checkpoint
DecideBest ==
    /\ pc = "decide"
    /\ UNCHANGED restVars
    /\ IF test_loss = Unbound
       THEN /\ Raise("UnboundLocalError")
            /\ UNCHANGED <<best_loss, files, best_writes, saved_params>>
       ELSE /\ IF has_ckpt_dir /\ GoodModel(test_loss, best_loss)
               THEN /\ best_loss' = test_loss
                    /\ files' = SaveCheckpoint(files, 0, wrapped, params)
                    /\ saved_params' = SavedNow(saved_params, 0, wrapped, params)
                    /\ best_writes' = best_writes \cup {epoch}
               ELSE UNCHANGED <<best_loss, files, best_writes, saved_params>>
            /\ pc' = "sample"
            /\ UNCHANGED raised
    /\ UNCHANGED <<has_test, has_ckpt_dir, has_samples, lr_decay, max_epochs,
                   iters, lr, params, epoch, test_loss, loaded, temp, it,
                   losses, mask_rate, nan_detected>>
    /\ UNCHANGED <<step_lrs, opt_steps, eval_loss_log, epoch_writes, nan_epochs,
                   eval_rates, last_extend, since_answer, sampled>>

\* samples_dir is not None and (epoch+1) % sample_every == 0: self.test(epoch),
\* which reads the model and the datasets and changes nothing of the trainer
SampleStep ==
    /\ pc = "sample"
    /\ UNCHANGED restVars
    /\ sampled' = IF has_samples /\ (epoch + 1) % sample_every = 0
                  THEN sampled \cup {epoch} ELSE sampled
    /\ pc' = "check"
    /\ since_answer' = since_answer + 1
    /\ UNCHANGED <<raised, has_test, has_ckpt_dir, has_samples, lr_decay,
                   max_epochs, iters, lr, params, files, epoch, best_loss,
                   test_loss, loaded, temp, it, losses, mask_rate, nan_detected>>
    /\ UNCHANGED <<step_lrs, saved_params, opt_steps, eval_loss_log, best_writes, epoch_writes,
                   nan_epochs, eval_rates, last_extend>>

\* if epoch >= self.config.max_epochs: prompt; otherwise the next iteration
ContinuationCheck ==
    /\ pc = "check"
    /\ UNCHANGED restVars
    /\ IF epoch >= max_epochs
       THEN /\ pc' = "prompt"
            /\ UNCHANGED <<epoch, it, losses, nan_detected>>
       ELSE BeginEpoch
    /\ UNCHANGED <<raised, has_test, has_ckpt_dir, has_samples, lr_decay,
                   max_epochs, iters, lr, params, files, best_loss, test_loss,
                   loaded, temp, mask_rate>>
    /\ UNCHANGED historyVars

\* int(temp) raises ValueError
RaisesValueError(a) == a.kind = "text"

\* temp = input(); int(temp); temp > 0: max_epochs += temp and continue;
\* otherwise a message and the end of the loop body; ValueError: break
Prompt(a) ==
    /\ pc = "prompt"
    /\ UNCHANGED restVars
    /\ temp' = a
    /\ since_answer' = 0
    /\ IF RaisesValueError(a)
       THEN /\ pc' = "done"
            /\ last_extend' = 0
            /\ UNCHANGED <<max_epochs, epoch, it, losses, nan_detected>>
       ELSE IF a.val > 0
            THEN /\ max_epochs' = max_epochs + a.val
                 /\ last_extend' = a.val
                 /\ BeginEpoch
            ELSE /\ last_extend' = 0
                 /\ BeginEpoch
                 /\ UNCHANGED max_epochs
    /\ UNCHANGED <<raised, has_test, has_ckpt_dir, has_samples, lr_decay,
                   iters, lr, params, files, best_loss, test_loss, loaded,
                   mask_rate>>
    /\ UNCHANGED <<step_lrs, saved_params, opt_steps, eval_loss_log, best_writes, epoch_writes,
                   nan_epochs, eval_rates, sampled>>

(***************************************************************************)
(* BLT_masking.                                                            *)
(*                                                                         *)
(* Rows are 1..BatchSize and positions 1..SeqLen; the program's position i *)
(* is position i + 1 here.  A score k stands for the float k / NumScores,  *)
(* so 1.0, 2.0 and -1 are the integers One, Two and MinusOne.              *)
(***************************************************************************)
Rows == 1..BatchSize
Positions == 1..SeqLen
Vocab == 1..VocabSize
\* the dataset's special tokens, outside the ordinary vocabulary
eos_token == VocabSize + 1
pad_token == VocabSize + 2
mask_token == VocabSize + 3
Scores == 0..(NumScores - 1)
One == NumScores
Two == 2 * NumScores
MinusOne == -NumScores
Rates == {<<n, RateDen>> : n \in 1..RateDen}
Batches == [Rows -> [Positions -> Vocab \cup {eos_token, pad_token}]]
Seeds == 0..MaxSeed

\* mutant: only pad is excluded, eos can be masked
ShouldMaskPadOnly(inputs, pad, eos) ==
    [b \in Rows |-> [p \in Positions |-> inputs[b][p] # pad]]

\* mutant: only eos is excluded, pad can be masked
ShouldMaskEosOnly(inputs, pad, eos) ==
    [b \in Rows |-> [p \in Positions |-> inputs[b][p] # eos]]

\* should_mask = (inputs != pad_token) & (inputs != eos_token)
ShouldMask(inputs, pad, eos) ==
    [b \in Rows |-> [p \in Positions |-> inputs[b][p] # pad /\ inputs[b][p] # eos]]

\* lens = torch.sum(should_mask, axis=-1)
Lens(sm) == [b \in Rows |-> Cardinality({p \in Positions : sm[b][p]})]

\* mutant: the target is rounded down
FloorMul(n, r) == (n * r[1]) \div r[2]

\* torch.ceil(n * r) for an integer n and a rational r
CeilMul(n, r) == (n * r[1] + r[2] - 1) \div r[2]

\* mask_lens = torch.ceil(lens * mask_rate).to(torch.int64)
MaskLens(lens, rate) == [b \in Rows |-> CeilMul(lens[b], rate)]

\* rand[~should_mask] = 2.0
FillUnmaskable(rand, sm) ==
    [b \in Rows |-> [p \in Positions |-> IF sm[b][p] THEN rand[b][p] ELSE Two]]

\* mutant: the appended column holds 2.0 and sorts last
InsertedRandSortingLast(rand) == [b \in Rows |-> Append(rand[b], Two)]

\* inserted_rand = torch.cat((rand, -1 column), dim=1)
InsertedRand(rand) == [b \in Rows |-> Append(rand[b], MinusOne)]

\* s with x inserted before the first element greater than x
RECURSIVE InsertSorted(_, _)
InsertSorted(x, s) ==
    IF s = <<>> THEN <<x>>
    ELSE IF x <= Head(s) THEN <<x>> \o s
    ELSE <<Head(s)>> \o InsertSorted(x, Tail(s))

\* torch.sort(row), ascending
RECURSIVE SortAsc(_)
SortAsc(s) == IF s = <<>> THEN <<>> ELSE InsertSorted(Head(s), SortAsc(Tail(s)))

\* cut_off = sorted_rand.gather(-1, mask_lens); cut_off[cut_off == 2.0] = 1.0
\* (the program's index mask_lens is position mask_lens + 1 here)
CutOff(inserted, mask_lens) ==
    [b \in Rows |->
        LET c == SortAsc(inserted[b])[mask_lens[b] + 1]
        IN  IF c = Two THEN One ELSE c]

\* should_mask &= (rand <= cut_off)
MaskedPositions(sm, rand, cut_off) ==
    [b \in Rows |-> [p \in Positions |-> sm[b][p] /\ rand[b][p] <= cut_off[b]]]

\* masked_inputs = torch.where(should_mask, mask_token, inputs)
MaskedInputs(inputs, sm, mask) ==
    [b \in Rows |-> [p \in Positions |-> IF sm[b][p] THEN mask ELSE inputs[b][p]]]

\* BLT_masking between the draw of rand and the return: the filled rand, the
\* returned masked_inputs and should_mask
BLT_masking(inputs, mask, eos, pad, rate, drawn) ==
    LET sm0 == ShouldMask(inputs, pad, eos)
        mask_lens == MaskLens(Lens(sm0), rate)
        rand == FillUnmaskable(drawn, sm0)
        cut_off == CutOff(InsertedRand(rand), mask_lens)
        sm == MaskedPositions(sm0, rand, cut_off)
    IN  [rand |-> rand,
         masked_inputs |-> MaskedInputs(inputs, sm, mask),
         should_mask |-> sm]

\* the values the generator yields: the k-th value (k = 0, 1, ...) after
\* seeding with seed
Stream(seed, k) ==
    ((seed + 1) * (2 * k + 1) + k * k + (k \div NumScores)) % NumScores

\* torch.manual_seed(seed)
ManualSeeded(seed) == [seed |-> seed, drawn |-> 0]

\* torch.rand(inputs.shape) from generator g: row-major draws
TorchRand(g) ==
    [b \in Rows |-> [p \in Positions |->
        Stream(g.seed, g.drawn + (b - 1) * SeqLen + (p - 1))]]

\* the generator after torch.rand(inputs.shape)
AfterRand(g) == [g EXCEPT !.drawn = g.drawn + BatchSize * SeqLen]

\* mutant: no torch.manual_seed(0), the draw comes from the generator as it is
GenAtDrawAsIs(g, training) == g

\* the generator BLT_masking draws from: reseeded with 0 when not training
GenAtDraw(g, training) == IF training THEN g ELSE ManualSeeded(0)

\* the generator BLT_masking leaves behind: when not training,
\* torch.manual_seed(original_seed) with original_seed = torch.initial_seed()
GenAtReturn(g, training) ==
    IF training THEN AfterRand(g) ELSE ManualSeeded(g.seed)

\* no call with training=False was made yet
NoEval ==
    [seen |-> FALSE,
     inputs |-> [b \in Rows |-> [p \in Positions |-> pad_token]],
     rate |-> <<1, 1>>,
     masked |-> [b \in Rows |-> [p \in Positions |-> pad_token]],
     mask |-> [b \in Rows |-> [p \in Positions |-> FALSE]],
     gen |-> ManualSeeded(0)]

\* the lr_mult expression is not part of this specification
SchedIdle ==
    /\ lrq = [i |-> 0, warmup |-> warmup_iters, final |-> final_iters]
    /\ lr_mult = Unbound

MaskIdle ==
    /\ first_eval = NoEval
    /\ m_pc = "idle"
    /\ m_inputs = [b \in Rows |-> [p \in Positions |-> pad_token]]
    /\ m_rate = <<1, 1>>
    /\ m_training = TRUE
    /\ m_rand = [b \in Rows |-> [p \in Positions |-> Two]]
    /\ m_masked = m_inputs
    /\ m_mask = [b \in Rows |-> [p \in Positions |-> FALSE]]
    /\ gen = ManualSeeded(0)
    /\ gen_before = ManualSeeded(0)


(***************************************************************************)
(* Calls of BLT_masking.                                                   *)
(***************************************************************************)
\* every matrix torch.rand(inputs.shape) can return
Draws == [Rows -> [Positions -> Scores]]

\* a sequence as the dataset stores it: ordinary tokens, then one eos and
\* pads, or ordinary tokens only
WellFormedRow(s) ==
    \E k \in 0..SeqLen :
        \A p \in Positions :
            /\ p <= k => s[p] \in Vocab
            /\ p = k + 1 => s[p] = eos_token
            /\ p > k + 1 => s[p] = pad_token

DatasetBatches == {x \in Batches : \A b \in Rows : WellFormedRow(x[b])}

\* the trainer is not part of a masking specification: it stays as constructed
TrainerIdle ==
    /\ TrainerInit
    /\ has_test
    /\ has_ckpt_dir
    /\ ~has_samples
    /\ lr_decay
    /\ max_epochs = 1
    /\ ~loaded
    /\ ~wrapped

\* one call BLT_masking(inputs, mask_token, eos_token, pad_token,
\* mask_rate=rate, training=training) in which torch.rand returns drawn
MaskCall(inputs, rate, training, drawn) ==
    /\ LET r == BLT_masking(inputs, mask_token, eos_token, pad_token, rate, drawn)
       IN  /\ m_rand' = r.rand
           /\ m_masked' = r.masked_inputs
           /\ m_mask' = r.should_mask
    /\ m_pc' = "returned"
    /\ m_inputs' = inputs
    /\ m_rate' = rate
    /\ m_training' = training
    /\ gen_before' = gen
    /\ gen' = GenAtReturn(gen, training)
    /\ first_eval' =
           IF training \/ first_eval.seen
           THEN first_eval
           ELSE [seen |-> TRUE, inputs |-> inputs, rate |-> rate,
                 masked |-> m_masked', mask |-> m_mask', gen |-> gen]
    /\ UNCHANGED <<trainerVars, historyVars, wrapped, load_name, schedVars>>

\* a training call on the chosen batch: the generator's state is not known, so
\* torch.rand can return any matrix
MaskTraining(drawn) ==
    /\ m_pc = "idle"
    /\ MaskCall(m_inputs, m_rate, TRUE, drawn)

\* a non-training call on the chosen batch: the draw follows manual_seed(0)
MaskEval ==
    /\ m_pc = "idle"
    /\ MaskCall(m_inputs, m_rate, FALSE, TorchRand(GenAtDraw(gen, FALSE)))

MaskInit ==
    /\ TrainerIdle
    /\ SchedIdle
    /\ first_eval = NoEval
    /\ m_pc = "idle"
    /\ m_inputs \in DatasetBatches
    /\ m_rate \in Rates
    /\ m_training = TRUE
    /\ m_rand = [b \in Rows |-> [p \in Positions |-> Two]]
    /\ m_masked = m_inputs
    /\ m_mask = [b \in Rows |-> [p \in Positions |-> FALSE]]
    /\ gen = ManualSeeded(0)
    /\ gen_before = ManualSeeded(0)

MaskNext ==
    \/ \E drawn \in Draws : MaskTraining(drawn)
    \/ MaskEval

\* BLT_masking as a function of its inputs, its rate and the scores drawn
SpecMask == MaskInit /\ [][MaskNext]_vars

\* a training call, drawing from the generator as it is
GenTraining(inputs, rate) ==
    /\ gen.drawn + BatchSize * SeqLen <= MaxTrainCalls * BatchSize * SeqLen
    /\ MaskCall(inputs, rate, TRUE, TorchRand(GenAtDraw(gen, TRUE)))

\* a non-training call
GenEval(inputs, rate) ==
    MaskCall(inputs, rate, FALSE, TorchRand(GenAtDraw(gen, FALSE)))

GenInit ==
    /\ TrainerIdle
    /\ SchedIdle
    /\ m_pc = "idle"
    /\ m_inputs = [b \in Rows |-> [p \in Positions |-> pad_token]]
    /\ m_rate = <<1, 1>>
    /\ m_training = TRUE
    /\ m_rand = [b \in Rows |-> [p \in Positions |-> Two]]
    /\ m_masked = m_inputs
    /\ m_mask = [b \in Rows |-> [p \in Positions |-> FALSE]]
    /\ gen \in {ManualSeeded(s) : s \in Seeds}
    /\ first_eval = NoEval
    /\ gen_before = gen

\* the batches of a series of calls: the first sequence fills its row, the
\* others are any sequences of the dataset
GenBatches == {x \in DatasetBatches : x[1][SeqLen] \in Vocab}

GenNext ==
    \/ \E inputs \in GenBatches, rate \in Rates : GenTraining(inputs, rate)
    \/ \E inputs \in GenBatches, rate \in Rates : GenEval(inputs, rate)

\* a series of BLT_masking calls sharing the global generator
SpecGen == GenInit /\ [][GenNext]_vars

Init == TrainerInit /\ MaskIdle /\ SchedIdle

Next ==
    \/ StartTrain
    \/ \E nan \in BOOLEAN, u \in 0..(UDen - 1), loss \in Losses :
           TrainBatch(nan, u, loss)
    \/ \E loss \in Losses : EvalBatch(loss)
    \/ SaveEpochCheckpoint
    \/ DecideBest
    \/ SampleStep
    \/ ContinuationCheck
    \/ \E a \in Answers : Prompt(a)

\* the train() loop of one Trainer
Spec == Init /\ [][Next]_vars

(***************************************************************************)
(* Properties of the train() loop.                                         *)
(***************************************************************************)
\* C3: a training batch with a NaN gradient makes run_epoch_ return without
\* raising, without an optimizer step and without another batch of that pass;
\* the iteration counter, the learning rates and the parameters are as before
\* the batch; train() goes on with the evaluation pass (or, without an
\* evaluation set, the end-of-epoch procedure) of the same epoch; and every
\* training pass entered afterwards starts at its first batch with the
\* counter still equal to the number of steps applied.
C3_NanAbortReturns ==
    [][ /\ (pc = "train" /\ nan_detected') =>
              /\ iters' = iters
              /\ lr' = lr
              /\ params' = params
              /\ opt_steps' = opt_steps
              /\ epoch' = epoch
              /\ raised' = "none"
              /\ pc' = (IF has_test THEN "eval" ELSE "save")
              /\ it' = 0
        /\ (pc # "train" /\ pc' = "train") =>
              /\ epoch' = epoch + 1
              /\ it' = 0
              /\ ~nan_detected'
              /\ iters' = iters
        /\ (pc = "eval" /\ pc' = "save" /\ epoch \in nan_epochs) =>
              /\ Len(eval_rates') = NumTestBatches
              /\ Len(eval_loss_log') = epoch
      ]_vars

\* C3 witness: an epoch was aborted, its evaluation pass and end-of-epoch
\* procedure ran, and the next epoch's training pass has applied a step
C3_Witness ==
    /\ pc = "train"
    /\ it = 1
    /\ epoch - 1 \in nan_epochs
    /\ epoch \notin nan_epochs
    /\ has_test
    /\ Len(eval_loss_log) = epoch - 1
    /\ Len(epoch_writes) = epoch - 1
    /\ iters >= 1

\* C4: the iteration counter equals the number of optimizer steps applied
\* since construction (0 at construction, also after a checkpoint load),
\* whatever evaluation batches, aborted batches, checkpoint saves and epoch
\* boundaries happened in between.
C4_ItersCountsSteps == iters = opt_steps

\* C4 witness: steps were applied, a batch was aborted, a checkpoint was
\* loaded and saved, an evaluation pass ran and an epoch boundary was crossed
C4_Witness ==
    /\ iters = 2
    /\ nan_epochs # {}
    /\ loaded
    /\ epoch >= 2
    /\ Len(epoch_writes) >= 1
    /\ Len(eval_loss_log) >= 1

\* C5 (as claimed): once the operator has answered with anything that is not a
\* positive integer (other text, zero, a negative integer), train() is in
\* its terminated state.
C5_NonPositiveTerminates ==
    (temp.kind = "text" \/ (temp.kind = "int" /\ temp.val <= 0)) => pc = "done"

\* C6 (as claimed): the operator is prompted only when epoch >= max_epochs,
\* and a prompt that follows a positive answer n comes after exactly n
\* further epochs.
C6_ExtendRunsExactlyN ==
    /\ pc = "prompt" => epoch >= max_epochs
    /\ (pc = "prompt" /\ last_extend > 0) => since_answer = last_extend

\* the epochs whose end-of-epoch best-checkpoint decision is complete
DecidedEpochs ==
    IF pc \in {"start", "train", "eval", "save", "decide"}
    THEN Max(0, epoch - 1) ELSE epoch

\* the least of the first k evaluation losses, float('inf') when k = 0
RECURSIVE MinEvalLoss(_)
MinEvalLoss(k) ==
    IF k = 0 THEN Inf ELSE RatMin(MinEvalLoss(k - 1), eval_loss_log[k])

\* C7: with an evaluation set and a checkpoint directory, after each
\* end-of-epoch procedure best_loss is the minimum of the evaluation losses
\* returned so far, and checkpoint.pth was written in exactly the epochs whose
\* evaluation loss is strictly lower than that of every earlier epoch.
C7_BestIsStrictMinimum ==
    (has_test /\ has_ckpt_dir) =>
        /\ best_loss = MinEvalLoss(DecidedEpochs)
        /\ best_writes =
              {e \in 1..DecidedEpochs :
                  \A j \in 1..(e - 1) : RatLt(eval_loss_log[e], eval_loss_log[j])}

\* C7 witness: three epochs decided; the second ties the first and does not
\* overwrite, the third improves and does
C7_Witness ==
    /\ has_test
    /\ has_ckpt_dir
    /\ pc = "check"
    /\ epoch = 3
    /\ eval_loss_log[2] = eval_loss_log[1]
    /\ RatLt(eval_loss_log[3], eval_loss_log[1])
    /\ best_writes = {1, 3}
    /\ best_loss = eval_loss_log[3]

\* C8 (as claimed): without an evaluation set (and with a checkpoint
\* directory) train() never raises, and every epoch whose end-of-epoch
\* procedure is complete wrote checkpoint.pth.
C8_NoEvalSetAlwaysGood ==
    (~has_test /\ has_ckpt_dir) =>
        /\ raised = "none"
        /\ \A e \in 1..DecidedEpochs : e \in best_writes

\* start_mask_rate + (end_mask_rate - start_mask_rate) * min(i / total, 1),
\* from the configured rates
ConfiguredRamp(i, total) ==
    RatAdd(<<start_mask_rate, 100>>,
           RatMul(<<end_mask_rate - start_mask_rate, 100>>,
                  RatMin(Rat(i, total), <<1, 1>>)))

\* C10 (as claimed): the batches of an evaluation pass use the configured
\* ramp, non-decreasing, start_mask_rate at the first batch and end_mask_rate
\* at the last one.
C10_EvalRampSpansRange ==
    /\ \A i \in 1..Len(eval_rates) :
           eval_rates[i] = ConfiguredRamp(i - 1, NumTestBatches)
    /\ \A i \in 1..(Len(eval_rates) - 1) : RatLe(eval_rates[i], eval_rates[i + 1])
    /\ Len(eval_rates) >= 1 => RatEq(eval_rates[1], <<start_mask_rate, 100>>)
    /\ Len(eval_rates) = NumTestBatches =>
           RatEq(eval_rates[NumTestBatches], <<end_mask_rate, 100>>)

(***************************************************************************)
(* Properties of BLT_masking.                                              *)
(***************************************************************************)
Unmaskable(tok) == tok = pad_token \/ tok = eos_token

\* C1: the returned indicator is true only where the input token is neither
\* pad nor eos, and every pad or eos position of the input holds the same
\* token, not mask_token, in the masked output (training or not).
C1_PadEosNeverMasked ==
    m_pc = "returned" =>
        \A b \in Rows : \A p \in Positions :
            /\ m_mask[b][p] => ~Unmaskable(m_inputs[b][p])
            /\ Unmaskable(m_inputs[b][p]) =>
                   /\ m_masked[b][p] = m_inputs[b][p]
                   /\ m_masked[b][p] # mask_token

\* C1 witness: a non-training call returned a batch in which a sequence with
\* eos and pad has a masked position
C1_Witness ==
    /\ m_pc = "returned"
    /\ ~m_training
    /\ \E b \in Rows :
          /\ m_inputs[b][SeqLen] = pad_token
          /\ m_inputs[b][SeqLen - 1] = eos_token
          /\ m_mask[b][1]
          /\ m_masked[b][1] = mask_token

\* the number of maskable positions of row b of the input
MaskableCount(b) == Cardinality({p \in Positions : ~Unmaskable(m_inputs[b][p])})

\* the number of positions the call masked in row b
MaskedCount(b) == Cardinality({p \in Positions : m_mask[b][p]})

\* ceil(c * rate): the least integer t with t >= c * rate
CeilTarget(c, rate) ==
    CHOOSE t \in 0..SeqLen :
        /\ t * rate[2] >= c * rate[1]
        /\ (t - 1) * rate[2] < c * rate[1]

\* the scores drawn at the maskable positions of row b are pairwise distinct
DistinctScores(b) ==
    \A p, q \in Positions :
        (p # q /\ ~Unmaskable(m_inputs[b][p]) /\ ~Unmaskable(m_inputs[b][q]))
            => m_rand[b][p] # m_rand[b][q]

\* C2: in each sequence, independently of the others, at least
\* ceil(count * rate) positions are masked, and with pairwise distinct scores
\* ceil(count * rate) or ceil(count * rate) + 1, never more.
C2_MaskedCountAtLeastTarget ==
    m_pc = "returned" =>
        \A b \in Rows :
            LET target == CeilTarget(MaskableCount(b), m_rate)
            IN  /\ MaskedCount(b) >= target
                /\ DistinctScores(b) =>
                       MaskedCount(b) \in {target, target + 1}

\* C2 witness: two sequences with different counts, distinct scores and a
\* target below the count, each masked by its own target
C2_Witness ==
    /\ m_pc = "returned"
    /\ \E b, c \in Rows :
          /\ MaskableCount(b) = 3
          /\ MaskableCount(c) = 2
          /\ DistinctScores(b)
          /\ DistinctScores(c)
          /\ CeilTarget(3, m_rate) = 2
          /\ MaskedCount(b) = 2
          /\ MaskedCount(c) = CeilTarget(2, m_rate)

\* C9 (as claimed): after a non-training call the generator is in the state it
\* had immediately before the call.
C9_GeneratorRestored ==
    (m_pc = "returned" /\ ~m_training) => gen = gen_before

(***************************************************************************)
(* The lr_mult expression of run_epoch_ as a function of the counter and   *)
(* the configuration.                                                      *)
(***************************************************************************)
\* self.iters is 0..MaxSchedIter, config.warmup_iters 0..MaxWarmup and
\* config.final_iters 0..MaxFinal
MaxSchedIter == 8
MaxWarmup == 3
MaxFinal == 5

LrInit ==
    /\ TrainerIdle
    /\ MaskIdle
    /\ lrq \in [i : 0..MaxSchedIter, warmup : 0..MaxWarmup, final : 0..MaxFinal]
    /\ lr_mult = Unbound

\* the if/else that assigns lr_mult
EvalLrMult ==
    /\ lr_mult = Unbound
    /\ lr_mult' = LrMultOf(lrq.i, lrq.warmup, lrq.final)
    /\ UNCHANGED <<trainerVars, historyVars, maskVars, first_eval, wrapped,
                   load_name, lrq>>

LrNext == EvalLrMult

SpecLr == LrInit /\ [][LrNext]_vars

\* C11: with 0 < warmup_iters < final_iters the multiplier is 0 at counter 0,
\* i / warmup_iters below warmup_iters, 1 at warmup_iters, 0.1 at final_iters,
\* at least 0.1 above warmup_iters and 0.1 from final_iters on.
C11_MultiplierShape ==
    (lr_mult # Unbound /\ 0 < lrq.warmup /\ lrq.warmup < lrq.final) =>
        /\ lrq.i = 0 => lr_mult = <<0, 1>>
        /\ lrq.i < lrq.warmup => RatEq(lr_mult, <<lrq.i, lrq.warmup>>)
        /\ lrq.i = lrq.warmup => lr_mult = <<1, 1>>
        /\ lrq.i = lrq.final => lr_mult = <<1, 10>>
        /\ lrq.i > lrq.warmup => RatLe(<<1, 10>>, lr_mult)
        /\ lrq.i >= lrq.final => lr_mult = <<1, 10>>

\* the multiplier was evaluated at final_iters, past a warmup of several
\* iterations
C11_Witness ==
    /\ lr_mult = <<1, 10>>
    /\ lrq.i = lrq.final
    /\ 1 < lrq.warmup
    /\ lrq.warmup + 1 < lrq.final

(***************************************************************************)
(* test_masking.                                                           *)
(*                                                                         *)
(* Positions are 1..TestLen; the program's index p is position p + 1.      *)
(***************************************************************************)
\* sequences handed to test_masking have TestLen tokens
TestLen == 9
\* the literal 7 of arange(seq_len) % 7 and the residues of tensor([1, 2])
BlockWidth == 7
MaskedResidues == {1, 2}

TestPositions == 1..TestLen

\* the number of indices (seq == eos_token).nonzero(as_tuple=True)[0] holds
EosCount(seq, eos) == Cardinality({q \in DOMAIN seq : seq[q] = eos})

\* .item() raises on a tensor that does not hold exactly one element; it is
\* reached only when eos_token in seq
ItemRaises(seq, eos) == EosCount(seq, eos) > 1

\* eos_index: the index .item() returns, len(seq) without an eos
EosIndex(seq, eos) ==
    IF EosCount(seq, eos) = 0
    THEN Len(seq)
    ELSE (CHOOSE q \in DOMAIN seq : seq[q] = eos) - 1

\* mutant: the pattern runs over arange(seq_len + 1)
MaskIndicesThroughEos(i, seq_len) ==
    {p \in 0..seq_len : p % BlockWidth \in MaskedResidues}

\* mask_indices of the sequence at batch index i: both branches of i % 2
MaskIndices(i, seq_len) ==
    IF i % 2 = 0
    THEN {p \in 0..(seq_len - 1) : p % BlockWidth \in MaskedResidues}
    ELSE {p \in 0..(seq_len - 1) : p % BlockWidth \in MaskedResidues}

\* the row of masked_inputs for the sequence at batch index i: pad_token,
\* then seq[:seq_len + 1], then mask_token at mask_indices
TestMaskedRow(i, seq, mask, eos, pad) ==
    LET seq_len == EosIndex(seq, eos)
        idx == MaskIndices(i, seq_len)
    IN  [q \in DOMAIN seq |->
            IF (q - 1) \in idx THEN mask
            ELSE IF q - 1 < seq_len + 1 THEN seq[q]
            ELSE pad]

\* the row of should_mask for the sequence at batch index i
TestShouldMaskRow(i, seq, eos) ==
    [q \in DOMAIN seq |-> (q - 1) \in MaskIndices(i, EosIndex(seq, eos))]

\* test_masking(inputs, mask_token, eos_token, pad_token): whether it raises,
\* and what it returns when it does not
test_masking(inputs, mask, eos, pad) ==
    IF \E b \in DOMAIN inputs : ItemRaises(inputs[b], eos)
    THEN [raised |-> TRUE,
          masked_inputs |-> inputs,
          should_mask |-> [b \in DOMAIN inputs |-> [q \in DOMAIN inputs[b] |-> FALSE]]]
    ELSE [raised |-> FALSE,
          masked_inputs |->
              [b \in DOMAIN inputs |-> TestMaskedRow(b - 1, inputs[b], mask, eos, pad)],
          should_mask |->
              [b \in DOMAIN inputs |-> TestShouldMaskRow(b - 1, inputs[b], eos)]]

\* a sequence of k ordinary tokens, an eos_token when k < TestLen, and
\* pad_token after it except for another eos_token at position e (e = 0:
\* no other one)
TestRow(k, e) ==
    [q \in TestPositions |->
        IF q <= k THEN 1 + (q % VocabSize)
        ELSE IF q = k + 1 \/ q = e THEN eos_token
        ELSE pad_token]

TestRows == {TestRow(k, e) : k \in 0..TestLen, e \in 0..TestLen}
TestBatches == [Rows -> TestRows]

TestInit ==
    /\ TrainerIdle
    /\ SchedIdle
    /\ first_eval = NoEval
    /\ m_pc = "idle"
    /\ m_inputs \in TestBatches
    /\ m_rate = <<1, 1>>
    /\ m_training = FALSE
    /\ m_rand = [b \in Rows |-> [p \in Positions |-> Two]]
    /\ m_masked = m_inputs
    /\ m_mask = [b \in Rows |-> [q \in TestPositions |-> FALSE]]
    /\ gen = ManualSeeded(0)
    /\ gen_before = ManualSeeded(0)

\* one call test_masking(inputs, mask_token, eos_token, pad_token)
TestCall ==
    /\ m_pc = "idle"
    /\ LET r == test_masking(m_inputs, mask_token, eos_token, pad_token)
       IN  /\ m_pc' = IF r.raised THEN "raised" ELSE "returned"
           /\ m_masked' = r.masked_inputs
           /\ m_mask' = r.should_mask
    /\ UNCHANGED <<m_inputs, m_rate, m_training, m_rand, gen, gen_before>>
    /\ UNCHANGED <<trainerVars, historyVars, first_eval, wrapped, load_name,
                   schedVars>>

TestNext == TestCall

SpecTest == TestInit /\ [][TestNext]_vars

\* the index of the first eos_token of the sequence, its length without one
ValidLength(seq) ==
    IF \E q \in DOMAIN seq : seq[q] = eos_token
    THEN (CHOOSE q \in DOMAIN seq :
              /\ seq[q] = eos_token
              /\ \A r \in 1..(q - 1) : seq[r] # eos_token) - 1
    ELSE Len(seq)

\* the positions the pattern names in the row b of the batch
PatternPositions(b) ==
    {q \in TestPositions :
        /\ q - 1 < ValidLength(m_inputs[b])
        /\ (q - 1) % 7 \in {1, 2}}

\* what the contract says of the row b of a call that returned
PatternHolds(b) ==
    \A q \in TestPositions :
        /\ m_mask[b][q] <=> q \in PatternPositions(b)
        /\ m_mask[b][q] => m_masked[b][q] = mask_token
        /\ m_inputs[b][q] = eos_token /\ q - 1 = ValidLength(m_inputs[b])
               => ~m_mask[b][q]
        /\ (~m_mask[b][q] /\ q - 1 <= ValidLength(m_inputs[b]))
               => m_masked[b][q] = m_inputs[b][q]

\* C12 as stated: on every batch test_masking returns the pattern up to the
\* first eos_token of each sequence
C12_AsStated ==
    m_pc # "idle" => (m_pc = "returned" /\ \A b \in Rows : PatternHolds(b))

\* C12: on every batch whose sequences hold at most one eos_token each,
\* test_masking masks exactly the positions p below the valid length with
\* p mod 7 in {1, 2}, alike at even and odd batch index, never the eos
\* position, keeps every unmasked token up to and including eos, and returns
\* the indicator of the masked positions; with a second eos_token in a
\* sequence it raises.
C12_PatternUpToEos ==
    m_pc # "idle" =>
        IF \A b \in Rows : EosCount(m_inputs[b], eos_token) <= 1
        THEN m_pc = "returned" /\ \A b \in Rows : PatternHolds(b)
        ELSE m_pc = "raised"

\* a call returned for a batch whose even-indexed sequence has its eos_token
\* at index 8 (residue 1) and whose odd-indexed sequence has none, both
\* masked at index 8 or beyond
C12_Witness ==
    /\ m_pc = "returned"
    /\ m_inputs[1][9] = eos_token
    /\ m_mask[1][2] /\ m_mask[1][3] /\ ~m_mask[1][9]
    /\ EosCount(m_inputs[2], eos_token) = 0
    /\ m_mask[2][9]
    /\ m_masked[2][9] = mask_token

(***************************************************************************)
(* save_checkpoint and load_checkpoint on one directory: config.ckpt_dir   *)
(* is "save" and config.load_name names a file save_checkpoint writes.     *)
(* Trainers are constructed one after another around a wrapped or an       *)
(* unwrapped model; the files outlive them.                                *)
(***************************************************************************)
\* a trainer applies at most MaxCkptSteps optimizer steps, and parameters
\* are versions 0..MaxCkptSteps
MaxCkptSteps == 2
\* save_checkpoint is called with id None (0) or 1..MaxCkptId
MaxCkptId == 1

CkptIds == 0..MaxCkptId

\* what save_checkpoint, load_checkpoint and optimizer.step() leave alone
ckptFrame == <<has_test, has_ckpt_dir, has_samples, lr_decay, max_epochs,
               epoch, best_loss, test_loss, loaded, temp, it, losses,
               mask_rate, nan_detected, eval_loss_log, best_writes,
               epoch_writes, nan_epochs, eval_rates, last_extend,
               since_answer, sampled, maskVars, first_eval, schedVars>>

\* Trainer(model, ...) around a freshly initialised model: DataParallel when
\* torch.cuda.is_available() (w), self.iters = 0, a new optimizer
CkptConstruct(w, name) ==
    /\ pc' = "start"
    /\ raised' = "none"
    /\ wrapped' = w
    /\ load_name' = name
    /\ params' = 0
    /\ iters' = 0
    /\ lr' = ConstructedLr
    /\ opt_steps' = 0
    /\ step_lrs' = <<>>
    /\ UNCHANGED <<files, saved_params, ckptFrame>>

\* a training batch that reaches optimizer.step()
CkptStep ==
    /\ pc # "raised"
    /\ iters < MaxCkptSteps
    /\ params < MaxCkptSteps
    /\ pc' = "stepped"
    /\ params' = params + 1
    /\ iters' = ItersAfterBatch(FALSE, iters)
    /\ lr' = LrAfterStep(iters', lr)
    /\ opt_steps' = opt_steps + 1
    /\ step_lrs' = Append(step_lrs, lr)
    /\ UNCHANGED <<raised, wrapped, load_name, files, saved_params, ckptFrame>>

\* self.save_checkpoint(id)
CkptSave(id) ==
    /\ pc # "raised"
    /\ pc' = "saved"
    /\ files' = SaveCheckpoint(files, id, wrapped, params)
    /\ saved_params' = SavedNow(saved_params, id, wrapped, params)
    /\ UNCHANGED <<raised, wrapped, load_name, params, iters, lr, opt_steps,
                   step_lrs, ckptFrame>>

\* self.load_checkpoint()
CkptLoad ==
    /\ pc # "raised"
    /\ LET sd == files[load_name]
       IN  /\ raised' = LoadRaises(wrapped, sd)
           /\ pc' = IF LoadRaises(wrapped, sd) = "none" THEN "loaded" ELSE "raised"
           /\ params' = LoadCheckpoint(wrapped, params, sd)
    /\ UNCHANGED <<wrapped, load_name, files, saved_params, iters, lr,
                   opt_steps, step_lrs, ckptFrame>>

CkptInit == TrainerIdle /\ MaskIdle /\ SchedIdle

CkptNext ==
    \/ \E w \in BOOLEAN, name \in CkptIds : CkptConstruct(w, name)
    \/ CkptStep
    \/ \E id \in CkptIds : CkptSave(id)
    \/ CkptLoad

SpecCkpt == CkptInit /\ [][CkptNext]_vars

C14_NothingToMask ==
    m_pc = "returned" =>
        \A b \in Rows :
            MaskableCount(b) = 0 =>
                /\ MaskedCount(b) = 0
                /\ m_masked[b] = m_inputs[b]

\* a training call returned a batch with an eos-and-pad sequence next to a
\* sequence of ordinary tokens that has masked positions
C14_Witness ==
    /\ m_pc = "returned"
    /\ m_training
    /\ \E b, c \in Rows :
          /\ MaskableCount(b) = 0
          /\ m_inputs[b][1] = eos_token
          /\ m_masked[b] = m_inputs[b]
          /\ MaskableCount(c) = SeqLen
          /\ MaskedCount(c) >= 1

\* C15 as stated: with pairwise distinct scores and a target below the count,
\* target + 1 positions are masked
C15_AsStated ==
    m_pc = "returned" =>
        \A b \in Rows :
            LET target == CeilTarget(MaskableCount(b), m_rate)
            IN  (DistinctScores(b) /\ target < MaskableCount(b)) =>
                    MaskedCount(b) = target + 1

\* C15: the -1 sentinel sorts to index 0, so the entry at index target is
\* the target-th smallest score: the masked positions are the maskable ones
\* with the lowest scores, and with pairwise distinct scores exactly target
\* of them, whether or not the target is below the count.
C15_CutoffIsTargetthScore ==
    m_pc = "returned" =>
        \A b \in Rows :
            LET target == CeilTarget(MaskableCount(b), m_rate)
            IN  /\ \A p, q \in Positions :
                      (m_mask[b][p] /\ ~m_mask[b][q]
                           /\ ~Unmaskable(m_inputs[b][q]))
                          => m_rand[b][p] < m_rand[b][q]
                /\ DistinctScores(b) => MaskedCount(b) = target

\* a sequence of three ordinary tokens with distinct scores and a target of
\* two has exactly its two lowest-scored positions masked
C15_Witness ==
    /\ m_pc = "returned"
    /\ \E b \in Rows :
          /\ MaskableCount(b) = 3
          /\ DistinctScores(b)
          /\ CeilTarget(3, m_rate) = 2
          /\ MaskedCount(b) = 2
          /\ \E q \in Positions :
                /\ ~m_mask[b][q]
                /\ \A p \in Positions \ {q} : m_rand[b][p] < m_rand[b][q]

(***************************************************************************)
(* Properties of the train() loop: the epoch checkpoints and the learning  *)
(* rate.                                                                   *)
(***************************************************************************)
\* the ids 1, 2, ..., n in order
IdsUpTo(n) == [k \in 1..n |-> k]

\* C16 (as claimed): every epoch that has finished its passes has its
\* checkpoint checkpointNo.<epoch>.pth written, once, in the order of the
\* epochs, before the best-checkpoint decision and the continuation check.
C16_EpochCheckpointEveryEpoch ==
    /\ pc \in {"train", "eval", "save"} => epoch_writes = IdsUpTo(epoch - 1)
    /\ pc \in {"decide", "sample", "check", "prompt", "done", "raised"} =>
           /\ epoch_writes = IdsUpTo(epoch)
           /\ \A e \in 1..epoch : files[CkptPath(e)] # Absent

\* learning_rate * multiplier(i), held by every parameter group
ScheduledLr(i) == [g \in Groups |-> RatMul(<<learning_rate, 1>>, LrMult(i))]

\* C17: with lr_decay, a training batch that applied an optimizer step
\* leaves every parameter group at learning_rate * multiplier(iters) for the
\* incremented counter; every other step of the run (evaluation batches,
\* aborted batches, the end-of-epoch steps) leaves the rates as they were.
C17_LrFollowsSchedule ==
    [][ /\ (lr_decay /\ opt_steps' = opt_steps + 1) =>
              /\ iters' = iters + 1
              /\ lr' = ScheduledLr(iters')
        /\ opt_steps' = opt_steps => lr' = lr ]_vars

\* the third step of a run with an aborted training pass left both groups at
\* learning_rate * 1/2, and an evaluation pass is under way
C17_Witness ==
    /\ lr_decay
    /\ iters = warmup_iters + 1
    /\ lr = ScheduledLr(warmup_iters + 1)
    /\ lr # ConstructedLr
    /\ nan_epochs # {}
    /\ pc = "eval"
    /\ it = 1

\* C19: with lr_decay the first optimizer step is applied with the rate the
\* optimizer was constructed with and the k-th, k >= 2, with
\* learning_rate * multiplier(k - 1); no group ever holds the rate 0; and
\* with warmup_iters > 1 the second step is applied with a lower rate than
\* the first.
C19_StepUsesPreviousRate ==
    lr_decay =>
        /\ \A k \in 1..Len(step_lrs) :
              step_lrs[k] = IF k = 1 THEN ConstructedLr ELSE ScheduledLr(k - 1)
        /\ \A g \in Groups : lr[g][1] # 0
        /\ (warmup_iters > 1 /\ Len(step_lrs) >= 2) =>
              \A g \in Groups :
                  /\ step_lrs[1][g][1] # 0
                  /\ RatLt(step_lrs[2][g], step_lrs[1][g])

\* four optimizer steps were applied: at the constructed rate, at half of
\* it, at the full rate and on the way down
C19_Witness ==
    /\ lr_decay
    /\ warmup_iters > 1
    /\ Len(step_lrs) = warmup_iters + 2
    /\ step_lrs[1] = ConstructedLr
    /\ RatLt(step_lrs[2][1], step_lrs[1][1])
    /\ step_lrs[warmup_iters + 1] = ScheduledLr(warmup_iters)
    /\ RatLt(step_lrs[warmup_iters + 2][1], step_lrs[warmup_iters + 1][1])

(***************************************************************************)
(* Properties of a series of BLT_masking calls.                            *)
(***************************************************************************)
\* C18: a call with training=False returns the masked sequences and the
\* indicator that the first such call with the same batch and the same rate
\* returned, whatever the generator held before either call and whatever
\* calls were made in between.
C18_EvalDeterministic ==
    (/\ m_pc = "returned"
     /\ ~m_training
     /\ first_eval.seen
     /\ m_inputs = first_eval.inputs
     /\ m_rate = first_eval.rate) =>
        /\ m_masked = first_eval.masked
        /\ m_mask = first_eval.mask

\* a second non-training call on the batch of the first one, made after
\* training calls and from another generator state, with a sequence of which
\* some but not all maskable positions are masked
C18_Witness ==
    /\ m_pc = "returned"
    /\ ~m_training
    /\ first_eval.seen
    /\ m_inputs = first_eval.inputs
    /\ m_rate = first_eval.rate
    /\ gen_before # first_eval.gen
    /\ gen_before.drawn > 0
    /\ gen_before.seed # 0
    /\ \E b \in Rows : MaskedCount(b) > 0 /\ MaskedCount(b) < MaskableCount(b)
====
